---- MODULE Spec2Model ----
(***************************************************************************)
(* Model of the authentication core of forsetti-ah-backend:                *)
(*   - UserController (src/server/controllers/user.controller.js): the     *)
(*     request handlers, one action per segment between two awaits;        *)
(*   - the article router (src/server/routes/article.routes.js): the       *)
(*     route table in registration order and its dispatch.                 *)
(* Helpers imported from ../utils and ../models are not part of the two    *)
(* source files; they are modelled from the specification and marked so.   *)
(***************************************************************************)
EXTENDS Integers, Sequences, FiniteSets, TLC

\* ------------------------------------------------------------------ bounds
MaxRequests == 4     \* requests started in one behaviour
TickMinutes == 10    \* minutes the clock advances per Tick
MaxNow == 20         \* last clock value
MaxComments == 2     \* rows the Comment table may hold
MaxAccountRequests == 3   \* requests started in one behaviour of AccountSpec

\* --------------------------------------------------------- program constants
ResetTTL == 15        \* generateToken(..., '15m'), in minutes
SessionTTL == 43200   \* generateToken(..., '30d'), in minutes

\* the request slots: two HTTP requests may be in flight at once
Calls == {1, 2}
Passwords == {"p1", "p2"}
Emails == {"a", "b"}

VARIABLES
    users,      \* the User table: id -> row
    now,        \* the clock, in minutes
    issued,     \* credentials that have reached a client
    calls,      \* request slots: the handler activation running in each
    inflight,   \* User.update queries issued and not yet settled
    nreq,       \* requests started so far
    used,       \* history: <<credential, password>> of the 201 responses since the last forgotPassword
    committed   \* history: <<credential, request>> of the password updates the store applied

VARIABLES
    articles,   \* the Article table: slug -> row
    comments,   \* the Comment table: id -> parent comment id (0 for a root)
    req,        \* the HTTP request the router is serving
    layer,      \* index in the router stack of the route being run (0: none yet)
    pos,        \* index in that route's chain of the next middleware to run
    ctx,        \* what the guards attached to the request
    ran,        \* history: the guards evaluated for this request, in order
    handled,    \* history: the routes whose handler ran for this request, in order
    haltedBy,   \* history: the guard that halted this request ("none": no guard did)
    rresp       \* the response sent for this request

uvars == <<users, now, issued, calls, inflight, nreq, used, committed>>
rvars == <<articles, comments, req, layer, pos, ctx, ran, handled, haltedBy, rresp>>
vars == <<uvars, rvars>>

\* ------------------------------------------------------------- TokenService
NoToken == [id |-> 0, email |-> "undefined", roleId |-> 0, iat |-> 0, exp |-> 0, sig |-> "none"]

GenerateToken(id, email, roleId, ttl, t) ==
    [id |-> id, email |-> email, roleId |-> roleId, iat |-> t, exp |-> t + ttl, sig |-> "ok"]

VerifyToken(tok, t) ==
    IF tok.sig # "ok" THEN "TokenInvalid"
    ELSE IF t > tok.exp THEN "TokenExpired"
    ELSE "ok"

\* A credential whose signature does not match its content.
ForgedToken == [id |-> 1, email |-> "a", roleId |-> 0, iat |-> 0, exp |-> ResetTTL, sig |-> "bad"]
\* A correctly signed reset credential whose {id, email} matches no row of the table.
OrphanToken == [id |-> 2, email |-> "b", roleId |-> 0, iat |-> 0, exp |-> ResetTTL, sig |-> "ok"]

PasswordHash(p) == <<"hash", p>>

\* ------------------------------------------------------------------- slots
Idle == [op |-> "idle", pc |-> "done", rid |-> 0, tok |-> NoToken, email |-> "none",
         password |-> "none", uid |-> 0, resp |-> "none", mail |-> "none",
         replay |-> "none", peer |-> 0, armed |-> FALSE,
         newrole |-> "none", newRoleId |-> 0, late |-> FALSE]

Free(s) == calls[s].pc = "done" /\ \A u \in inflight : u.rid # calls[s].rid

CanStart(s) == Free(s) /\ nreq < MaxRequests

\* User.findOne({ where: { id, email } })
FindByIdEmail(id, email) == {i \in DOMAIN users : i = id /\ users[i].email = email}

\* User.findOne({ where: { email } })
FindByEmail(email) == {i \in DOMAIN users : users[i].email = email}

\* history bookkeeping of a forgotPassword step for `email`: the calls in progress for
\* that identity no longer count as a replay, nor as two calls racing undisturbed
ClearHistory(c, email) ==
    IF c.op = "reset" /\ c.email = email
    THEN [c EXCEPT !.replay = "none", !.peer = -1, !.late = FALSE] ELSE c


\* User.isPasswordValid(password)
IsPasswordValid(row, password) == row.password = PasswordHash(password)

NewCall(op, tok, email, password) ==
    [Idle EXCEPT !.op = op, !.pc = "run", !.rid = nreq + 1, !.tok = tok,
                 !.email = email, !.password = password]

\* ------------------------------------------------ UserController.create
CreateStart(s, email, password) ==
    /\ CanStart(s)
    /\ calls' = [calls EXCEPT ![s] = [NewCall("create", NoToken, email, password) EXCEPT !.pc = "insert"]]
    /\ nreq' = nreq + 1
    /\ UNCHANGED <<users, now, issued, inflight, used, committed, rvars>>

CreateInsert(s) ==
    /\ calls[s].op = "create" /\ calls[s].pc = "insert"
    /\ IF FindByEmail(calls[s].email) # {}
         THEN /\ calls' = [calls EXCEPT ![s].pc = "done", ![s].resp = "error500"]
              /\ UNCHANGED users
         ELSE LET id == Cardinality(DOMAIN users) + 1 IN
              /\ users' = [i \in DOMAIN users \cup {id} |->
                              IF i = id
                              THEN [email |-> calls[s].email,
                                    password |-> PasswordHash(calls[s].password),
                                    istokenreset |-> FALSE, roleId |-> 1]
                              ELSE users[i]]
              /\ calls' = [calls EXCEPT ![s].pc = "token", ![s].uid = id]
    /\ UNCHANGED <<now, issued, inflight, nreq, used, committed, rvars>>

CreateRespond(s) ==
    /\ calls[s].op = "create" /\ calls[s].pc = "token"
    /\ LET token == GenerateToken(calls[s].uid, "undefined", 0, SessionTTL, now) IN
       /\ issued' = issued \cup {token}
       /\ calls' = [calls EXCEPT ![s].pc = "done", ![s].tok = token,
                                 ![s].mail = "pending", ![s].resp = "201"]
    /\ UNCHANGED <<users, now, inflight, nreq, used, committed, rvars>>

\* -------------------------------------------- UserController.signinUser
\* SigninFind accepting any password for a known email
SigninFindAnyPassword(s, email, password) ==
    /\ CanStart(s)
    /\ LET found == FindByEmail(email) IN
       IF found # {}
       THEN calls' = [calls EXCEPT ![s] = [NewCall("signin", NoToken, email, password)
                                           EXCEPT !.pc = "token", !.uid = CHOOSE i \in found : TRUE]]
       ELSE calls' = [calls EXCEPT ![s] = [NewCall("signin", NoToken, email, password)
                                           EXCEPT !.pc = "done", !.resp = "400"]]
    /\ nreq' = nreq + 1
    /\ UNCHANGED <<users, now, issued, inflight, used, committed, rvars>>

SigninFind(s, email, password) ==
    /\ CanStart(s)
    /\ LET found == FindByEmail(email) IN
       IF found # {} /\ \A i \in found : IsPasswordValid(users[i], password)
       THEN calls' = [calls EXCEPT ![s] = [NewCall("signin", NoToken, email, password)
                                           EXCEPT !.pc = "token", !.uid = CHOOSE i \in found : TRUE]]
       ELSE calls' = [calls EXCEPT ![s] = [NewCall("signin", NoToken, email, password)
                                           EXCEPT !.pc = "done", !.resp = "400"]]
    /\ nreq' = nreq + 1
    /\ UNCHANGED <<users, now, issued, inflight, used, committed, rvars>>

SigninRespond(s) ==
    /\ calls[s].op = "signin" /\ calls[s].pc = "token"
    /\ LET token == GenerateToken(calls[s].uid, "undefined", users[calls[s].uid].roleId, SessionTTL, now) IN
       /\ issued' = issued \cup {token}
       /\ calls' = [calls EXCEPT ![s].pc = "done", ![s].tok = token,
                                 ![s].mail = "pending", ![s].resp = "200"]
    /\ UNCHANGED <<users, now, inflight, nreq, used, committed, rvars>>

\* ---------------------------------------- UserController.forgotPassword
ForgotStart(s, email) ==
    /\ CanStart(s)
    /\ LET found == FindByEmail(email) IN
       IF found = {}
       THEN calls' = [calls EXCEPT ![s] = [NewCall("forgot", NoToken, email, "none")
                                           EXCEPT !.pc = "done", !.resp = "404"]]
       ELSE LET id == CHOOSE i \in found : TRUE
                token == GenerateToken(id, email, 0, ResetTTL, now) IN
            calls' = [t \in Calls |->
                        IF t = s
                        THEN [NewCall("forgot", token, email, "none") EXCEPT !.pc = "update", !.uid = id]
                        ELSE ClearHistory(calls[t], email)]
    /\ used' = {u \in used : u[1].email # email}
    /\ nreq' = nreq + 1
    /\ UNCHANGED <<users, now, issued, inflight, committed, rvars>>

\* ForgotUpdate leaving istokenreset as it finds it
ForgotUpdateKeepFlag(s) ==
    /\ calls[s].op = "forgot" /\ calls[s].pc = "update"
    /\ calls' = [t \in Calls |->
                    IF t = s
                    THEN [calls[s] EXCEPT !.pc = "mail", !.mail = "pending"]
                    ELSE ClearHistory(calls[t], calls[s].email)]
    /\ used' = {u \in used : u[1].email # calls[s].email}
    /\ UNCHANGED <<users, now, issued, inflight, nreq, committed, rvars>>

ForgotUpdate(s) ==
    /\ calls[s].op = "forgot" /\ calls[s].pc = "update"
    /\ users' = [i \in DOMAIN users |->
                    IF users[i].email = calls[s].email
                    THEN [users[i] EXCEPT !.istokenreset = FALSE]
                    ELSE users[i]]
    /\ calls' = [t \in Calls |->
                    IF t = s
                    THEN [calls[s] EXCEPT !.pc = "mail", !.mail = "pending"]
                    ELSE ClearHistory(calls[t], calls[s].email)]
    /\ used' = {u \in used : u[1].email # calls[s].email}
    /\ UNCHANGED <<now, issued, inflight, nreq, committed, rvars>>

ForgotRespond(s) ==
    /\ calls[s].op = "forgot" /\ calls[s].pc = "mail"
    /\ calls[s].mail \in {"sent", "failed"}
    /\ calls' = [calls EXCEPT ![s].pc = "done",
                              ![s].resp = IF calls[s].mail = "sent" THEN "200" ELSE "error500"]
    /\ UNCHANGED <<users, now, issued, inflight, nreq, used, committed, rvars>>

\* sendMail(mailOption) settles: the notifier delivered the message or gave up.
MailSettle(s, outcome) ==
    /\ calls[s].mail = "pending"
    /\ calls' = [calls EXCEPT ![s].mail = outcome]
    /\ issued' = IF calls[s].op = "forgot" /\ outcome = "sent"
                 THEN issued \cup {calls[s].tok} ELSE issued
    /\ UNCHANGED <<users, now, inflight, nreq, used, committed, rvars>>

\* ----------------------------------------- UserController.resetPassword
\* lines 257-266: the handler's entry up to the result of verifyToken
ResetVerify(s, tok, password) ==
    /\ CanStart(s)
    /\ LET verdict == VerifyToken(tok, now)
           rivals == {t \in Calls \ {s} : calls[t].op = "reset" /\ calls[t].pc # "done"
                                            /\ calls[t].email = tok.email}
           fresh == /\ verdict = "ok"
                    /\ \E i \in FindByIdEmail(tok.id, tok.email) : ~users[i].istokenreset
                    /\ \A u \in inflight : u.email # tok.email
           me == [NewCall("reset", tok, tok.email, password) EXCEPT
                    !.uid = tok.id,
                    !.replay = IF rivals = {} /\ \E u \in used : u[1] = tok
                               THEN (CHOOSE u \in used : u[1] = tok)[2] ELSE "none",
                    !.peer = IF rivals = {} THEN 0 ELSE calls[CHOOSE t \in rivals : TRUE].rid,
                    !.armed = fresh,
                    !.late = rivals = {} /\ \E u \in used : u[1].email = tok.email /\ u[1] # tok] IN
       IF verdict # "ok"
       THEN calls' = [calls EXCEPT ![s] = [me EXCEPT !.pc = "done", !.resp = verdict]]
       ELSE calls' = [t \in Calls |->
                        IF t = s THEN [me EXCEPT !.pc = "find"]
                        ELSE IF t \in rivals THEN [calls[t] EXCEPT !.peer = nreq + 1]
                        ELSE calls[t]]
    /\ nreq' = nreq + 1
    /\ UNCHANGED <<users, now, issued, inflight, used, committed, rvars>>

\* ResetFind with the istokenreset check left out
ResetFindNoFlagCheck(s) ==
    /\ calls[s].op = "reset" /\ calls[s].pc = "find"
    /\ LET checkuser == FindByIdEmail(calls[s].uid, calls[s].email) IN
       IF checkuser = {}
       THEN calls' = [calls EXCEPT ![s].pc = "done", ![s].resp = "404"]
       ELSE calls' = [calls EXCEPT ![s].pc = "hash"]
    /\ UNCHANGED <<users, now, issued, inflight, nreq, used, committed, rvars>>

\* lines 267-281: User.findOne and the two precondition checks on its result
ResetFind(s) ==
    /\ calls[s].op = "reset" /\ calls[s].pc = "find"
    /\ LET checkuser == FindByIdEmail(calls[s].uid, calls[s].email) IN
       IF checkuser = {}
       THEN calls' = [calls EXCEPT ![s].pc = "done", ![s].resp = "404"]
       ELSE IF \E i \in checkuser : users[i].istokenreset = TRUE
       THEN calls' = [calls EXCEPT ![s].pc = "done", ![s].resp = "409"]
       ELSE calls' = [calls EXCEPT ![s].pc = "hash"]
    /\ UNCHANGED <<users, now, issued, inflight, nreq, used, committed, rvars>>

\* line 282: await passwordHash(password)
ResetHash(s) ==
    /\ calls[s].op = "reset" /\ calls[s].pc = "hash"
    /\ calls' = [calls EXCEPT ![s].pc = "update"]
    /\ UNCHANGED <<users, now, issued, inflight, nreq, used, committed, rvars>>

\* lines 283-294: User.update is called and NOT awaited; the promise it returns is
\* truthy, so the 201 is sent in the same turn while the query is still in flight.
ResetUpdate(s) ==
    /\ calls[s].op = "reset" /\ calls[s].pc = "update"
    /\ inflight' = inflight \cup {[rid |-> calls[s].rid, tok |-> calls[s].tok,
                                    email |-> calls[s].email,
                                    password |-> PasswordHash(calls[s].password)]}
    /\ calls' = [calls EXCEPT ![s].pc = "done", ![s].resp = "201"]
    /\ used' = IF calls[s].peer = 0
               THEN used \cup {<<calls[s].tok, calls[s].password>>} ELSE used
    /\ UNCHANGED <<users, now, issued, nreq, committed, rvars>>

\* The store settles an in-flight User.update({password, istokenreset: true}, {where: {email}}):
\* it applies it to every row with that email, or the query fails.
UpdateSettle(u, outcome) ==
    /\ u \in inflight
    /\ inflight' = inflight \ {u}
    /\ IF outcome = "applied"
       THEN /\ users' = [i \in DOMAIN users |->
                            IF users[i].email = u.email
                            THEN [users[i] EXCEPT !.password = u.password, !.istokenreset = TRUE]
                            ELSE users[i]]
            /\ committed' = IF FindByEmail(u.email) # {}
                            THEN committed \cup {<<u.tok, u.rid>>} ELSE committed
       ELSE UNCHANGED <<users, committed>>
    /\ UNCHANGED <<now, issued, calls, nreq, used, rvars>>

Tick ==
    /\ now + TickMinutes <= MaxNow
    /\ now' = now + TickMinutes
    /\ UNCHANGED <<users, issued, calls, inflight, nreq, used, committed, rvars>>

\* ------------------------------------------ UserController.socialCallback
\* the external profile: its emails (absent, or a list whose first entry is `email`)
\* and whether it carries photos
SocialCallback(s, email, photos) ==
    /\ CanStart(s)
    /\ calls' = [calls EXCEPT ![s] =
            IF email = "none"
            THEN [NewCall("social", NoToken, "noEmail", "none") EXCEPT !.pc = "redirect"]
            ELSE IF ~photos
            THEN [NewCall("social", NoToken, email, "none") EXCEPT !.pc = "done", !.resp = "error500"]
            ELSE [NewCall("social", NoToken, email, "providerId") EXCEPT !.pc = "findOrCreate"]]
    /\ nreq' = nreq + 1
    /\ UNCHANGED <<users, now, issued, inflight, used, committed, rvars>>

\* lines 91-103: User.findOrCreate({ where: { email } , defaults }) and done(null, user)
SocialFindOrCreate(s) ==
    /\ calls[s].op = "social" /\ calls[s].pc = "findOrCreate"
    /\ LET found == FindByEmail(calls[s].email) IN
       IF found # {}
       THEN /\ calls' = [calls EXCEPT ![s].pc = "redirect", ![s].uid = CHOOSE i \in found : TRUE]
            /\ UNCHANGED users
       ELSE LET id == Cardinality(DOMAIN users) + 1 IN
            /\ users' = [i \in DOMAIN users \cup {id} |->
                            IF i = id
                            THEN [email |-> calls[s].email,
                                  password |-> PasswordHash(calls[s].password),
                                  istokenreset |-> FALSE, roleId |-> 1]
                            ELSE users[i]]
            /\ calls' = [calls EXCEPT ![s].pc = "redirect", ![s].uid = id]
    /\ UNCHANGED <<now, issued, inflight, nreq, used, committed, rvars>>

\* ------------------------------------------ UserController.socialRedirect
\* SocialRedirect without the noEmail test
SocialRedirectNoCheck(s) ==
    /\ calls[s].op = "social" /\ calls[s].pc = "redirect"
    /\ LET token == GenerateToken(calls[s].uid, calls[s].email, 0, SessionTTL, now) IN
       /\ issued' = issued \cup {token}
       /\ calls' = [calls EXCEPT ![s].pc = "done", ![s].tok = token,
                                 ![s].resp = "redirectToken"]
    /\ UNCHANGED <<users, now, inflight, nreq, used, committed, rvars>>

SocialRedirect(s) ==
    /\ calls[s].op = "social" /\ calls[s].pc = "redirect"
    /\ IF calls[s].email = "noEmail"
       THEN /\ calls' = [calls EXCEPT ![s].pc = "done", ![s].resp = "redirect400"]
            /\ UNCHANGED issued
       ELSE LET token == GenerateToken(calls[s].uid, calls[s].email, 0, SessionTTL, now) IN
            /\ issued' = issued \cup {token}
            /\ calls' = [calls EXCEPT ![s].pc = "done", ![s].tok = token,
                                      ![s].resp = "redirectToken"]
    /\ UNCHANGED <<users, now, inflight, nreq, used, committed, rvars>>

\* ------------------------------------------ UserController.updateUserRole
\* the Role table
Roles == {[id |-> 1, type |-> "user"], [id |-> 2, type |-> "admin"]}
\* the role types a request may name
RoleTypes == {"user", "admin", "superadmin"}
UserIds == {1, 2}

\* Role.findOne({ where: { type } })
FindRole(type) == {r \in Roles : r.type = type}

\* lines 173-177: User.findByPk(userId)
UpdateRoleStart(s, userId, newrole) ==
    /\ CanStart(s)
    /\ calls' = [calls EXCEPT ![s] =
            IF userId \in DOMAIN users
            THEN [NewCall("role", NoToken, "none", "none") EXCEPT
                    !.pc = "findRole", !.uid = userId, !.newrole = newrole]
            ELSE [NewCall("role", NoToken, "none", "none") EXCEPT
                    !.pc = "done", !.uid = userId, !.newrole = newrole, !.resp = "404"]]
    /\ nreq' = nreq + 1
    /\ UNCHANGED <<users, now, issued, inflight, used, committed, rvars>>

\* UpdateRoleFindRole going on with a null role id when no Role has the type
UpdateRoleFindRoleNoThrow(s) ==
    /\ calls[s].op = "role" /\ calls[s].pc = "findRole"
    /\ LET found == FindRole(calls[s].newrole) IN
       calls' = [calls EXCEPT ![s].pc = "update",
                              ![s].newRoleId = IF found = {} THEN 0
                                               ELSE (CHOOSE r \in found : TRUE).id]
    /\ UNCHANGED <<users, now, issued, inflight, nreq, used, committed, rvars>>

\* lines 179-180: Role.findOne, then newRoleId.dataValues.id, which throws on null
UpdateRoleFindRole(s) ==
    /\ calls[s].op = "role" /\ calls[s].pc = "findRole"
    /\ LET found == FindRole(calls[s].newrole) IN
       IF found = {}
       THEN calls' = [calls EXCEPT ![s].pc = "done", ![s].resp = "error500"]
       ELSE calls' = [calls EXCEPT ![s].pc = "update",
                                   ![s].newRoleId = (CHOOSE r \in found : TRUE).id]
    /\ UNCHANGED <<users, now, issued, inflight, nreq, used, committed, rvars>>

\* lines 180-201: await User.update({ roleId }, { where: { id } }) and the 200
UpdateRoleUpdate(s) ==
    /\ calls[s].op = "role" /\ calls[s].pc = "update"
    /\ users' = [i \in DOMAIN users |->
                    IF i = calls[s].uid THEN [users[i] EXCEPT !.roleId = calls[s].newRoleId]
                    ELSE users[i]]
    /\ calls' = [calls EXCEPT ![s].pc = "done", ![s].resp = "200"]
    /\ UNCHANGED <<now, issued, inflight, nreq, used, committed, rvars>>

\* ======================================================= the article router
\* The guard chains, one per registration, as declared.
PostRootChainA == <<"signInAuth", "createarticle">>
SearchChain == <<"checkQueryParams", "checkSpecialChars">>
GetSlugChain == <<>>
PostRootChainB == <<"signInAuth", "imageUpload", "createarticle">>
CommentChain == <<"signInAuth", "checkComments", "verifyText">>
\* the thread chain with signInAuth declared first
ThreadChainAuthFirst == <<"signInAuth", "checkComments">>
\* the thread chain without its existence check
ThreadChainNoCheck == <<"signInAuth">>
ThreadChain == <<"checkComments", "signInAuth">>
\* the claps chain without signInAuth
ClapsChainOpen == <<>>
ClapsChain == <<"signInAuth">>
ListChainA == <<"paramsValidate">>
ListChainB == <<>>
BookmarkChain == <<"signInAuth">>
\* the PUT chain without its ownership check
PutSlugChainNoAuthor == <<"signInAuth", "checkArticleExist", "updateArticle">>
PutSlugChain == <<"signInAuth", "checkArticleExist", "checkAuthor", "updateArticle">>
LikeChain == <<"signInAuth", "doesLikeExistInCommentForUser">>
ShareChain == <<"signInAuth", "shareArticleCheck", "checkArticleExist">>
\* the DELETE chain with the ownership check declared before the existence check
DeleteSlugChainAuthorFirst == <<"signInAuth", "checkAuthor", "checkArticleExist", "deleteImage">>
DeleteSlugChain == <<"signInAuth", "checkArticleExist", "checkAuthor", "deleteImage">>

Route(m, p, c, h) == [method |-> m, path |-> p, chain |-> c, handler |-> h]

\* router.stack: the registrations in source order
Routes == <<
    Route("POST", "/", PostRootChainA, "createArticle"),
    Route("GET", "/search", SearchChain, "getArticles"),
    Route("GET", "/:slug", GetSlugChain, "getOneArticle"),
    Route("POST", "/", PostRootChainB, "createArticle"),
    Route("POST", "/:slug/comment", CommentChain, "createComments"),
    Route("POST", "/:slug/comment/:commentid/thread", ThreadChain, "threadedComment"),
    Route("POST", "/:articleId/claps", ClapsChain, "createClap"),
    Route("GET", "/", ListChainA, "getAllArticles"),
    Route("GET", "/", ListChainB, "getAllArticles"),
    Route("POST", "/:articleId/bookmark", BookmarkChain, "createOrRemoveBookmark"),
    Route("PUT", "/:slug", PutSlugChain, "editArticle"),
    Route("POST", "/comment/:commentId/like", LikeChain, "likeComment"),
    Route("POST", "/:slug/share", ShareChain, "shareArticle"),
    Route("DELETE", "/:slug", DeleteSlugChain, "deleteArticle")
>>

Slugs == {"s1", "s2"}
Identities == {1, 2}
CommentIds == 1..MaxComments

\* the request shapes: <<method, path, has a slug, has a comment id, has a validated body>>
Shapes == {
    <<"POST", "/", FALSE, FALSE, TRUE>>,
    <<"GET", "/search", FALSE, FALSE, TRUE>>,
    <<"GET", "/:slug", TRUE, FALSE, FALSE>>,
    <<"POST", "/:slug/comment", TRUE, FALSE, TRUE>>,
    <<"POST", "/:slug/comment/:commentid/thread", TRUE, TRUE, FALSE>>,
    <<"POST", "/:articleId/claps", TRUE, FALSE, FALSE>>,
    <<"GET", "/", FALSE, FALSE, TRUE>>,
    <<"POST", "/:articleId/bookmark", TRUE, FALSE, FALSE>>,
    <<"PUT", "/:slug", TRUE, FALSE, TRUE>>,
    <<"POST", "/comment/:commentId/like", FALSE, TRUE, FALSE>>,
    <<"POST", "/:slug/share", TRUE, FALSE, TRUE>>,
    <<"DELETE", "/:slug", TRUE, FALSE, FALSE>>
}

NoReq == [method |-> "none", path |-> "none", cred |-> 0, slug |-> "none", commentid |-> 0, valid |-> TRUE]
NoCtx == [identity |-> 0, article |-> "none", image |-> FALSE]

\* path-to-regexp: a literal pattern matches itself; "/:slug" also matches the path "/search"
PathMatches(pattern, path) ==
    pattern = path \/ (pattern = "/:slug" /\ path = "/search")

Matching(r) == {i \in 1..Len(Routes) :
                  Routes[i].method = r.method /\ PathMatches(Routes[i].path, r.path)}

Min(S) == CHOOSE x \in S : \A y \in S : x <= y

\* ---------------------------------------------------------------- guards
Validators == {"createarticle", "updateArticle", "verifyText", "paramsValidate",
               "checkQueryParams", "checkSpecialChars", "shareArticleCheck"}

\* the status a guard halts with, or "pass"
GuardVerdict(g) ==
    CASE g = "signInAuth" -> IF req.cred = 0 THEN "401" ELSE "pass"
      [] g = "checkArticleExist" -> IF req.slug \in DOMAIN articles THEN "pass" ELSE "404"
      [] g = "checkAuthor" ->
            IF /\ ctx.identity # 0
               /\ ctx.article \in DOMAIN articles
               /\ articles[ctx.article].authorId = ctx.identity
            THEN "pass" ELSE "403"
      [] g = "checkComments" ->
            IF /\ req.slug \in DOMAIN articles
               /\ (req.commentid # 0 => req.commentid \in DOMAIN comments)
            THEN "pass" ELSE "404"
      [] g \in Validators -> IF req.valid THEN "pass" ELSE "400"
      [] OTHER -> "pass"

\* what a passing guard attaches to the request
GuardCtx(g) ==
    CASE g = "signInAuth" -> [ctx EXCEPT !.identity = req.cred]
      [] g = "checkArticleExist" -> [ctx EXCEPT !.article = req.slug]
      [] g = "imageUpload" -> [ctx EXCEPT !.image = TRUE]
      [] OTHER -> ctx

\* what a passing guard does to the store
GuardEffect(g) ==
    IF g = "deleteImage" /\ req.slug \in DOMAIN articles
    THEN [articles EXCEPT ![req.slug].image = FALSE]
    ELSE articles

\* ---------------------------------------------------------------- router
\* the requests a client may send: the fields a shape does not carry stay at their default
Requests ==
    {[method |-> sh[1], path |-> sh[2], cred |-> c,
      slug |-> IF sh[3] THEN sl ELSE "none",
      commentid |-> IF sh[4] THEN k ELSE 0,
      valid |-> IF sh[5] THEN v ELSE TRUE] :
        sh \in Shapes, c \in {0} \cup Identities, sl \in Slugs, k \in CommentIds, v \in BOOLEAN}

NewRequest(r) ==
    /\ req = NoReq \/ rresp # "none"
    /\ req' = r
    /\ layer' = 0 /\ pos' = 0 /\ ctx' = NoCtx /\ ran' = <<>> /\ handled' = <<>>
    /\ haltedBy' = "none" /\ rresp' = "none"
    /\ UNCHANGED <<articles, comments, uvars>>

\* Router.handle: the first registration, in order, whose method and path match
RouteMatch ==
    /\ req # NoReq /\ rresp = "none" /\ layer = 0
    /\ Matching(req) # {}
    /\ layer' = Min(Matching(req))
    /\ pos' = 1
    /\ UNCHANGED <<articles, comments, req, ctx, ran, handled, haltedBy, rresp, uvars>>

\* Route.dispatch: the next middleware of the chain; it calls next() or responds
GuardStep ==
    /\ layer # 0 /\ rresp = "none" /\ pos <= Len(Routes[layer].chain)
    /\ LET g == Routes[layer].chain[pos]
           verdict == GuardVerdict(g) IN
       /\ ran' = Append(ran, g)
       /\ IF verdict = "pass"
          THEN /\ pos' = pos + 1
               /\ ctx' = GuardCtx(g)
               /\ articles' = GuardEffect(g)
               /\ UNCHANGED <<rresp, haltedBy>>
          ELSE /\ rresp' = verdict
               /\ haltedBy' = g
               /\ UNCHANGED <<pos, ctx, articles>>
    /\ UNCHANGED <<comments, req, layer, handled, uvars>>

FreeSlugs == Slugs \ DOMAIN articles
FreeComments == CommentIds \ DOMAIN comments

\* the controller behind the chain: it runs once every guard has called next()
HandlerStep ==
    /\ layer # 0 /\ rresp = "none" /\ pos = Len(Routes[layer].chain) + 1
    /\ LET h == Routes[layer].handler IN
       /\ handled' = Append(handled, layer)
       /\ articles' =
            CASE h = "createArticle" /\ FreeSlugs # {} ->
                    LET n == CHOOSE x \in FreeSlugs : TRUE IN
                    [x \in DOMAIN articles \cup {n} |->
                        IF x = n THEN [authorId |-> ctx.identity, edited |-> FALSE, image |-> ctx.image]
                        ELSE articles[x]]
              [] h = "editArticle" /\ req.slug \in DOMAIN articles ->
                    [articles EXCEPT ![req.slug].edited = TRUE]
              [] h = "deleteArticle" /\ req.slug \in DOMAIN articles ->
                    [x \in DOMAIN articles \ {req.slug} |-> articles[x]]
              [] OTHER -> articles
       /\ comments' =
            IF h \in {"createComments", "threadedComment"} /\ FreeComments # {}
            THEN LET n == Min(FreeComments) IN
                 [x \in DOMAIN comments \cup {n} |->
                    IF x = n THEN (IF h = "threadedComment" THEN req.commentid ELSE 0)
                    ELSE comments[x]]
            ELSE comments
       /\ rresp' = IF h \in {"createArticle", "createComments", "threadedComment"} THEN "201" ELSE "200"
    /\ UNCHANGED <<req, layer, pos, ctx, ran, haltedBy, uvars>>

\* ============================================================ specifications
UserInit ==
    /\ users = (1 :> [email |-> "a", password |-> PasswordHash("p0"),
                      istokenreset |-> FALSE, roleId |-> 1])
    /\ now = 0
    /\ issued = {}
    /\ calls = [s \in Calls |-> Idle]
    /\ inflight = {}
    /\ nreq = 0
    /\ used = {}
    /\ committed = {}

RouterInit ==
    /\ articles = ("s1" :> [authorId |-> 1, edited |-> FALSE, image |-> TRUE])
    /\ comments = (1 :> 0)
    /\ req = NoReq
    /\ layer = 0 /\ pos = 0 /\ ctx = NoCtx /\ ran = <<>> /\ handled = <<>>
    /\ haltedBy = "none" /\ rresp = "none"

Init == UserInit /\ RouterInit

\* the password-reset state machine: forgotPassword and resetPassword calls
Next ==
    \/ \E s \in Calls, e \in Emails : ForgotStart(s, e)
    \/ \E s \in Calls : ForgotUpdate(s)
    \/ \E s \in Calls : ForgotRespond(s)
    \/ \E s \in Calls, o \in {"sent", "failed"} : MailSettle(s, o)
    \/ \E s \in Calls, t \in issued \cup {ForgedToken, OrphanToken}, p \in Passwords : ResetVerify(s, t, p)
    \/ \E s \in Calls : ResetFind(s)
    \/ \E s \in Calls : ResetHash(s)
    \/ \E s \in Calls : ResetUpdate(s)
    \/ \E u \in inflight, o \in {"applied", "failed"} : UpdateSettle(u, o)
    \/ Tick

Spec == Init /\ [][Next]_vars

\* the handlers that dispatch a notification: create, signinUser, forgotPassword
MailNext ==
    \/ \E s \in Calls, e \in Emails, p \in Passwords : CreateStart(s, e, p)
    \/ \E s \in Calls : CreateInsert(s)
    \/ \E s \in Calls : CreateRespond(s)
    \/ \E s \in Calls, e \in Emails, p \in Passwords \cup {"p0"} : SigninFind(s, e, p)
    \/ \E s \in Calls : SigninRespond(s)
    \/ \E s \in Calls, e \in Emails : ForgotStart(s, e)
    \/ \E s \in Calls : ForgotUpdate(s)
    \/ \E s \in Calls : ForgotRespond(s)
    \/ \E s \in Calls, o \in {"sent", "failed"} : MailSettle(s, o)

MailSpec == Init /\ [][MailNext]_vars

\* every handler of UserController
AccountNext ==
    \/ \E s \in Calls, e \in Emails, p \in {"p1"} :
            nreq < MaxAccountRequests /\ CreateStart(s, e, p)
    \/ \E s \in Calls, e \in Emails, p \in {"p0", "p1"} :
            nreq < MaxAccountRequests /\ SigninFind(s, e, p)
    \/ \E s \in Calls, e \in Emails :
            nreq < MaxAccountRequests /\ ForgotStart(s, e)
    \/ \E s \in Calls, t \in issued \cup {ForgedToken}, p \in {"p1"} :
            nreq < MaxAccountRequests /\ ResetVerify(s, t, p)
    \/ \E s \in Calls, e \in Emails \cup {"none"}, ph \in BOOLEAN :
            nreq < MaxAccountRequests /\ SocialCallback(s, e, ph)
    \/ \E s \in Calls, u \in UserIds, r \in RoleTypes :
            nreq < MaxAccountRequests /\ UpdateRoleStart(s, u, r)
    \/ \E s \in Calls : CreateInsert(s)
    \/ \E s \in Calls : CreateRespond(s)
    \/ \E s \in Calls : SigninRespond(s)
    \/ \E s \in Calls : ForgotUpdate(s)
    \/ \E s \in Calls : ForgotRespond(s)
    \/ \E s \in Calls, o \in {"sent", "failed"} : MailSettle(s, o)
    \/ \E s \in Calls : ResetFind(s)
    \/ \E s \in Calls : ResetHash(s)
    \/ \E s \in Calls : ResetUpdate(s)
    \/ \E u \in inflight, o \in {"applied", "failed"} : UpdateSettle(u, o)
    \/ \E s \in Calls : SocialFindOrCreate(s)
    \/ \E s \in Calls : SocialRedirect(s)
    \/ \E s \in Calls : UpdateRoleFindRole(s)
    \/ \E s \in Calls : UpdateRoleUpdate(s)

AccountSpec == Init /\ [][AccountNext]_vars

\* the article router serving one request after another
RouterNext ==
    \/ \E r \in Requests : NewRequest(r)
    \/ RouteMatch
    \/ GuardStep
    \/ HandlerStep

RouterSpec == Init /\ [][RouterNext]_vars

\* ==================================================================== claims
IsTokenError(r) == r \in {"TokenInvalid", "TokenExpired"}

\* the call in slot s receives its response in this step
Responds(s) ==
    /\ calls'[s].resp # "none"
    /\ calls[s].resp = "none" \/ calls[s].rid # calls'[s].rid

\* C1: a resetPassword call that presents a credential for which a 201 has already been
\* sent (no forgotPassword since, no other resetPassword call overlapping either of the
\* two), and whose credential still verifies, is answered 409 and the stored password is
\* the hash of the first call's password.
C1_ReplayRejected ==
    \A s \in Calls :
        (/\ calls[s].op = "reset" /\ calls[s].pc = "done"
         /\ calls[s].replay # "none" /\ calls[s].peer = 0
         /\ ~IsTokenError(calls[s].resp))
        => /\ calls[s].resp = "409"
           /\ \A i \in FindByIdEmail(calls[s].uid, calls[s].email) :
                 users[i].password = PasswordHash(calls[s].replay)

\* C2: of two resetPassword calls that overlap in time and carry the same verified,
\* not yet used credential, exactly one is answered 201 and the other 409.
C2_OneWinner ==
    \A s, t \in Calls :
        (/\ s # t
         /\ calls[s].op = "reset" /\ calls[t].op = "reset"
         /\ calls[s].pc = "done" /\ calls[t].pc = "done"
         /\ calls[s].tok = calls[t].tok
         /\ calls[s].peer = calls[t].rid /\ calls[t].peer = calls[s].rid
         /\ calls[s].armed /\ calls[t].armed)
        => {calls[s].resp, calls[t].resp} = {"201", "409"}

\* C3: the store applies at most one password update per reset credential.
C3_AtMostOnce ==
    \A c, d \in committed : c[1] = d[1] => c = d

\* C4: in the step in which resetPassword sends its 201, the store holds the hash of
\* the submitted password for that identity and its istokenreset is true.
C4_Committed201 ==
    [][\A s \in Calls :
          (Responds(s) /\ calls'[s].op = "reset" /\ calls'[s].resp = "201")
          => \E i \in DOMAIN users' :
                /\ i = calls'[s].uid /\ users'[i].email = calls'[s].email
                /\ users'[i].password = PasswordHash(calls'[s].password)
                /\ users'[i].istokenreset]_vars

SuccessResponse(op) == IF op = "create" THEN "201" ELSE "200"

\* C5: once create, signinUser or forgotPassword has dispatched its notification, its
\* success response has been sent, whatever becomes of the notification (pending
\* for ever, delivered, failed).
C5_FireAndForget ==
    \A s \in Calls :
        (calls[s].op \in {"create", "signin", "forgot"} /\ calls[s].mail # "none")
        => calls[s].resp = SuccessResponse(calls[s].op)

\* C10: resetPassword checks verify, then lookup, then flag. A call is answered with
\* the token error exactly when its credential does not verify on entry; from the
\* lookup it is answered 404 when no row matches {id, email}, else 409 when the row's
\* istokenreset is true, else it goes on to hash; and a step that answers with one of
\* these errors changes no row and issues no update.
C10_Preconditions ==
    [][\A s \in Calls :
          /\ (calls'[s].op = "reset" /\ calls'[s].rid # calls[s].rid) =>
                /\ calls'[s].resp = (IF VerifyToken(calls'[s].tok, now) = "ok"
                                     THEN "none" ELSE VerifyToken(calls'[s].tok, now))
                /\ calls'[s].pc = (IF calls'[s].resp = "none" THEN "find" ELSE "done")
          /\ (calls[s].op = "reset" /\ calls[s].pc = "find" /\ calls'[s].pc # "find") =>
                LET row == FindByIdEmail(calls[s].uid, calls[s].email) IN
                /\ calls'[s].rid = calls[s].rid
                /\ calls'[s].resp = (IF row = {} THEN "404"
                                     ELSE IF \E i \in row : users[i].istokenreset THEN "409"
                                     ELSE "none")
                /\ calls'[s].pc = (IF calls'[s].resp = "none" THEN "hash" ELSE "done")
          /\ (Responds(s) /\ calls'[s].op = "reset" /\ calls'[s].resp # "201") =>
                /\ users' = users
                /\ inflight' = inflight
                /\ committed' = committed]_vars

C10_Witness ==
    \E s, t \in Calls :
        /\ calls[s].op = "reset" /\ calls[s].resp = "409"
        /\ calls[t].op = "reset" /\ calls[t].resp = "404"

\* ------------------------------------------------------------ router claims
Chain == IF layer = 0 THEN <<>> ELSE Routes[layer].chain

InSeq(x, q) == \E k \in 1..Len(q) : q[k] = x

Before(x, y, q) == \E j, k \in 1..Len(q) : j < k /\ q[j] = x /\ q[k] = y

\* the request being served is a PUT or DELETE of an existing article by an
\* authenticated identity that is not its author
NonOwnerMutation ==
    /\ req.method \in {"PUT", "DELETE"} /\ req.path = "/:slug"
    /\ req.cred # 0
    /\ req.slug \in DOMAIN articles
    /\ articles[req.slug].authorId # req.cred

\* C6: a PUT or DELETE /articles/:slug by an identity other than the article's author
\* is halted by checkAuthor with 403: updateArticle, deleteImage and the handler never
\* run for it, and no step of the request changes the Article table.
C6_OwnershipEnforced ==
    /\ [](NonOwnerMutation =>
            /\ rresp \in {"none", "403"}
            /\ rresp = "403" => haltedBy = "checkAuthor"
            /\ ~InSeq("updateArticle", ran) /\ ~InSeq("deleteImage", ran)
            /\ handled = <<>>)
    /\ [][NonOwnerMutation => articles' = articles]_vars

C6_Witness ==
    /\ NonOwnerMutation
    /\ rresp = "403" /\ haltedBy = "checkAuthor"
    /\ req.method = "DELETE"

\* C7: on a route whose chain holds checkAuthor, checkArticleExist is evaluated (and
\* passes) before checkAuthor, and checkAuthor passes before the handler runs; an
\* authenticated request for an article that does not exist is answered 404, never 403.
C7_ExistenceBeforeOwnership ==
    /\ \A k \in 1..Len(ran) :
          ran[k] = "checkAuthor" => \E j \in 1..(k - 1) : ran[j] = "checkArticleExist"
    /\ (handled # <<>> /\ InSeq("checkAuthor", Chain)) =>
          /\ Before("checkArticleExist", "checkAuthor", ran)
          /\ haltedBy = "none"
    /\ (/\ InSeq("checkAuthor", Chain)
        /\ req.cred # 0
        /\ req.slug \notin DOMAIN articles
        /\ handled = <<>>
        /\ rresp # "none") => (rresp = "404" /\ haltedBy = "checkArticleExist")

C7_Witness ==
    /\ InSeq("checkAuthor", Chain)
    /\ req.method = "DELETE" /\ req.cred # 0
    /\ req.slug \notin DOMAIN articles
    /\ handled = <<>>
    /\ rresp = "404"

\* the request fails both guards of the thread route
FailsBothThreadGuards ==
    /\ req.path = "/:slug/comment/:commentid/thread"
    /\ req.cred = 0
    /\ req.slug \notin DOMAIN articles \/ req.commentid \notin DOMAIN comments

\* C8: the guards of a route are evaluated one at a time in the declared order; the
\* first one that halts gives the response and nothing is evaluated after it; the
\* handler runs only after every guard passed, and once. On the thread route a request
\* failing both guards gets checkComments' 404.
C8_ShortCircuit ==
    /\ Len(ran) <= Len(Chain) /\ ran = SubSeq(Chain, 1, Len(ran))
    /\ haltedBy # "none" =>
          /\ rresp # "none" /\ handled = <<>>
          /\ Len(ran) = pos /\ ran[pos] = haltedBy
    /\ handled # <<>> =>
          /\ haltedBy = "none" /\ ran = Chain
          /\ handled = <<layer>>
    /\ rresp # "none" => (haltedBy # "none" \/ handled # <<>>)
    /\ (FailsBothThreadGuards /\ rresp # "none") =>
          (rresp = "404" /\ ran = <<"checkComments">>)

C8_Witness ==
    /\ FailsBothThreadGuards
    /\ rresp = "404" /\ haltedBy = "checkComments"

\* C9: a POST /articles request whose create-article handler ran has passed signInAuth
\* and then imageUpload, and the handler ran once.
C9_CreateBehindImageUpload ==
    (req.method = "POST" /\ req.path = "/" /\ handled # <<>>)
    => /\ Before("signInAuth", "imageUpload", ran)
       /\ Len(handled) = 1

\* ----------------------------------------------------------- account claims
TTL(tok) == tok.exp - tok.iat

ClaimSet(tok) ==
    (IF tok.id # 0 THEN {"id"} ELSE {})
    \cup (IF tok.email # "undefined" THEN {"email"} ELSE {})
    \cup (IF tok.roleId # 0 THEN {"roleId"} ELSE {})

\* the forgotPassword call in slot s runs its User.update in this step
ForgotUpdates(s) ==
    calls[s].op = "forgot" /\ calls[s].pc = "update" /\ calls'[s].pc = "mail"

\* C11: a forgotPassword update leaves istokenreset false for its email; istokenreset
\* goes from false to true only when the store applies the update of a resetPassword
\* call that answered 201, and from true to false only in a forgotPassword update for
\* that email: every other step (create, signinUser, updateUserRole, socialCallback,
\* a failed resetPassword) leaves it as it is.
C11_FlagTransitions ==
    [][/\ \A s \in Calls : ForgotUpdates(s) =>
              \A i \in DOMAIN users' :
                  users'[i].email = calls[s].email => ~users'[i].istokenreset
       /\ \A u \in inflight' \ inflight :
              \E s \in Calls : /\ calls[s].op = "reset" /\ calls[s].rid = u.rid
                                /\ Responds(s) /\ calls'[s].resp = "201"
       /\ \A i \in DOMAIN users :
              /\ (~users[i].istokenreset /\ users'[i].istokenreset) =>
                    \E u \in inflight \ inflight' : u.email = users[i].email
              /\ (users[i].istokenreset /\ ~users'[i].istokenreset) =>
                    \E s \in Calls : ForgotUpdates(s) /\ calls[s].email = users[i].email
       /\ \A i \in DOMAIN users' \ DOMAIN users : ~users'[i].istokenreset]_vars

\* a forgotPassword update has re-armed an identity whose password a reset had changed
C11_Witness ==
    \E c \in committed, s \in Calls :
        /\ calls[s].op = "forgot" /\ calls[s].pc \in {"mail", "done"} /\ calls[s].resp # "404"
        /\ calls[s].rid > c[2] /\ calls[s].email = c[1].email
        /\ \A i \in FindByEmail(calls[s].email) : ~users[i].istokenreset

\* C12: the credentials issued by create, socialRedirect and signinUser have the 30-day
\* TTL and carry id and roleId; those issued by forgotPassword have the 15-minute TTL
\* and carry id and email; a session credential and a reset credential differ in TTL
\* and in claim set.
C12_CredentialFlavours ==
    \A s \in Calls :
        calls[s].tok.sig = "ok" =>
            /\ calls[s].op \in {"create", "social", "signin"} =>
                  /\ TTL(calls[s].tok) = SessionTTL
                  /\ {"id", "roleId"} \subseteq ClaimSet(calls[s].tok)
                  /\ ClaimSet(calls[s].tok) # {"id", "email"}
            /\ calls[s].op = "forgot" =>
                  /\ TTL(calls[s].tok) = ResetTTL
                  /\ ClaimSet(calls[s].tok) = {"id", "email"}

C14_Signin ==
    /\ [](\A s \in Calls : calls[s].op = "signin" =>
            /\ calls[s].resp \in {"none", "200", "400"}
            /\ calls[s].resp = "400" => (calls[s].tok = NoToken /\ calls[s].mail = "none")
            /\ calls[s].resp = "200" =>
                  /\ calls[s].tok \in issued /\ TTL(calls[s].tok) = SessionTTL
                  /\ calls[s].tok.id = calls[s].uid
                  /\ calls[s].uid \in DOMAIN users
                  /\ users[calls[s].uid].email = calls[s].email
                  /\ calls[s].mail # "none")
    /\ [][\A s \in Calls :
            (calls'[s].op = "signin" /\ calls'[s].rid # calls[s].rid) =>
                LET valid == \E i \in DOMAIN users :
                                /\ users[i].email = calls'[s].email
                                /\ users[i].password = PasswordHash(calls'[s].password) IN
                /\ valid => (calls'[s].pc = "token" /\ calls'[s].resp = "none")
                /\ ~valid => (calls'[s].pc = "done" /\ calls'[s].resp = "400")
                /\ issued' = issued]_vars

C14_Witness ==
    \E s, t \in Calls :
        /\ calls[s].op = "signin" /\ calls[s].resp = "200"
        /\ calls[t].op = "signin" /\ calls[t].resp = "400"

\* C16: every password update resetPassword issues carries a credential with the
\* 15-minute TTL, that is, one that forgotPassword issued.
C16_OnlyResetCredentials ==
    /\ \A u \in inflight : TTL(u.tok) = ResetTTL
    /\ \A c \in committed : TTL(c[1]) = ResetTTL

\* C17: a resetPassword call that starts after a 201 was sent for another credential of
\* the same identity (no forgotPassword since, no other resetPassword call overlapping)
\* and whose credential verifies is answered 409.
C17_FlagPerIdentity ==
    \A s \in Calls :
        (/\ calls[s].op = "reset" /\ calls[s].pc = "done"
         /\ calls[s].late /\ calls[s].peer = 0
         /\ ~IsTokenError(calls[s].resp))
        => calls[s].resp = "409"

\* C19: a row's roleId changes only in the update of an updateUserRole call for that
\* row, and to the id of a Role whose type is the requested one; the call answers 404
\* exactly when no row has the id, and neither that answer nor the failure on a role
\* type without a Role changes any row.
C19_RoleUpdate ==
    [][/\ \A i \in DOMAIN users :
              users'[i].roleId # users[i].roleId =>
                  \E s \in Calls :
                      /\ calls[s].op = "role" /\ calls[s].uid = i
                      /\ Responds(s) /\ calls'[s].resp = "200"
                      /\ \E r \in Roles : r.type = calls[s].newrole /\ r.id = users'[i].roleId
       /\ \A s \in Calls :
              /\ (calls'[s].op = "role" /\ calls'[s].rid # calls[s].rid) =>
                    (calls'[s].resp = "404" <=> calls'[s].uid \notin DOMAIN users)
              /\ (Responds(s) /\ calls'[s].op = "role" /\ calls'[s].resp # "200") =>
                    users' = users
              /\ (calls'[s].op = "role" /\ calls'[s].pc = "update") =>
                    \E r \in Roles : r.type = calls'[s].newrole]_vars

C19_Witness ==
    \E s, t \in Calls :
        /\ calls[s].op = "role" /\ calls[s].resp = "200"
        /\ users[calls[s].uid].roleId = 2
        /\ calls[t].op = "role" /\ calls[t].resp = "error500"

\* ------------------------------------------------------- more router claims
RECURSIVE ReachesRoot(_, _)
\* following parent references from comment c reaches a root within n hops
ReachesRoot(c, n) ==
    IF c \notin DOMAIN comments THEN FALSE
    ELSE IF comments[c] = 0 THEN TRUE
    ELSE IF n = 0 THEN FALSE
    ELSE ReachesRoot(comments[c], n - 1)

ThreadMissingParent ==
    /\ req.path = "/:slug/comment/:commentid/thread"
    /\ req.commentid \notin DOMAIN comments

\* C15: a thread request whose parent comment does not exist is answered 404 without
\* the handler running and adds no comment; every comment's parent reference is null
\* or an existing comment, and every comment reaches a root.
C15_ThreadIntegrity ==
    /\ [](/\ ThreadMissingParent => (rresp \in {"none", "404"} /\ handled = <<>>)
          /\ \A c \in DOMAIN comments : ReachesRoot(c, Cardinality(DOMAIN comments)))
    /\ [][ThreadMissingParent => comments' = comments]_vars

C15_Witness ==
    /\ req.path = "/:slug/comment/:commentid/thread"
    /\ rresp = "201"
    /\ \E c \in DOMAIN comments : comments[c] = req.commentid /\ comments[c] # 0

StateChanging == {"POST", "PUT", "DELETE"}

\* C18: every POST, PUT and DELETE registration has signInAuth in its chain, and the
\* handler of such a route runs only for a request with a verified credential.
C18_AuthOnMutations ==
    /\ \A i \in 1..Len(Routes) :
          Routes[i].method \in StateChanging => InSeq("signInAuth", Routes[i].chain)
    /\ (handled # <<>> /\ req.method \in StateChanging) =>
          (req.cred # 0 /\ InSeq("signInAuth", ran))

C18_Witness ==
    /\ req.method = "POST" /\ req.path = "/:articleId/claps"
    /\ req.cred = 0
    /\ rresp = "401" /\ handled = <<>>

====
